---- MODULE Spec2Model ----
(***************************************************************************)
(* Model of the Enzymscreening dashboard (src/Greattable.py): the          *)
(* load-time numeric normalisation (parse_number_de, as_percent_0_100)     *)
(* and the Dash callbacks (update_dropdowns, toggle_option_visibility,     *)
(* toggle_prot_sub_options, update_plot) over the three canonical tables.  *)
(***************************************************************************)
EXTENDS Integers, Sequences, FiniteSets, TLC

VARIABLES
    carb, prot, filme,   \* the three canonical tables (module globals, lines 50-52)
    req,                 \* current values of the seven input components
    fig,                 \* value of Output("main-plot", "figure")
    dff,                 \* the frame the last update_plot worked on
    options,             \* outputs of update_dropdowns
    styles,              \* outputs of the two visibility callbacks
    pc,                  \* position of the callback dispatch / of the load loop
    cell,                \* load phase: the raw spreadsheet cell being normalised
    norm                 \* load phase: the normalised cell

vars == <<carb, prot, filme, req, fig, dff, options, styles, pc, cell, norm>>

(***************************************************************************)
(* Bounds of the check.                                                    *)
(***************************************************************************)
MaxLen == 4        \* longest enumerated cell text
MaxTenths == 1010  \* numeric cells range over -MaxTenths..MaxTenths tenths and units

(***************************************************************************)
(* Numbers.  A float is modelled exactly as a decimal m * 10^-e, kept in   *)
(* lowest terms (m not divisible by 10 unless e = 0); NaN is np.nan.       *)
(***************************************************************************)
NaN == [nan |-> TRUE, m |-> 0, e |-> 0]

RECURSIVE Dec(_, _)
Dec(m, e) ==
    IF e > 0 /\ m % 10 = 0 THEN Dec(m \div 10, e - 1)
    ELSE [nan |-> FALSE, m |-> m, e |-> e]

RECURSIVE Pow10(_)
Pow10(n) == IF n = 0 THEN 1 ELSE 10 * Pow10(n - 1)

Abs(i) == IF i < 0 THEN -i ELSE i

\* a <= b for two non-NaN decimals
DecLeq(a, b) == a.m * Pow10(b.e) <= b.m * Pow10(a.e)

DecAbs(v) == [v EXCEPT !.m = Abs(v.m)]

\* v * 100.0
Times100(v) ==
    IF v.e >= 2 THEN Dec(v.m, v.e - 2)
    ELSE IF v.e = 1 THEN Dec(v.m * 10, 0)
    ELSE Dec(v.m * 100, 0)

(***************************************************************************)
(* Text.  A str is a sequence of characters; the two non-ASCII characters  *)
(* of the source are written "nbsp" (\xa0) and "permille".                 *)
(***************************************************************************)
Digits == {"0", "1", "2", "3", "4", "5", "6", "7", "8", "9"}

DigitVal(c) ==
    CASE c = "0" -> 0 [] c = "1" -> 1 [] c = "2" -> 2 [] c = "3" -> 3
      [] c = "4" -> 4 [] c = "5" -> 5 [] c = "6" -> 6 [] c = "7" -> 7
      [] c = "8" -> 8 [] c = "9" -> 9

\* str.isspace() on the modelled characters: "\xa0" is Unicode whitespace
IsSpace(c) == c \in {" ", "nbsp"}

\* str.lower() on the modelled letters
LowerChar(c) ==
    CASE c = "N" -> "n" [] c = "A" -> "a" [] c = "O" -> "o" [] c = "E" -> "e"
      [] OTHER -> c

Lower(s) == [i \in 1..Len(s) |-> LowerChar(s[i])]

SetMin(S) == CHOOSE a \in S : \A b \in S : a <= b
SetMax(S) == CHOOSE a \in S : \A b \in S : b <= a

\* str.strip()
Strip(s) ==
    LET keep == {i \in 1..Len(s) : ~IsSpace(s[i])}
    IN  IF keep = {} THEN <<>> ELSE SubSeq(s, SetMin(keep), SetMax(keep))

\* s.replace(a, b) for single characters a, b
ReplaceChar(s, a, b) == [i \in 1..Len(s) |-> IF s[i] = a THEN b ELSE s[i]]

\* s.replace(a, "")
RemoveChar(s, a) == SelectSeq(s, LAMBDA c : c # a)

RECURSIVE DigitsToInt(_)
DigitsToInt(ds) ==
    IF ds = <<>> THEN 0
    ELSE DigitsToInt(SubSeq(ds, 1, Len(ds) - 1)) * 10 + DigitVal(ds[Len(ds)])

\* float(s) of a str over digits, ".", signs and the letters of "nan"/"none":
\* [sign] digits [. digits] with a digit on at least one side of the point, or
\* [sign] "nan"; anything else raises ValueError, reported here as [ok |-> FALSE].
PyFloat(s) ==
    LET signed == s # <<>> /\ s[1] \in {"+", "-"}
        body == IF signed THEN Tail(s) ELSE s
        dots == {i \in 1..Len(body) : body[i] = "."}
        ip == IF dots = {} THEN body ELSE SubSeq(body, 1, SetMin(dots) - 1)
        fp == IF dots = {} THEN <<>> ELSE SubSeq(body, SetMin(dots) + 1, Len(body))
        mag == DigitsToInt(ip \o fp)
    IN  IF Lower(body) = <<"n", "a", "n">> THEN [ok |-> TRUE, val |-> NaN]
        ELSE IF /\ \A i \in 1..Len(body) : body[i] \in Digits \cup {"."}
                /\ Cardinality(dots) <= 1
                /\ Len(ip) + Len(fp) >= 1
        THEN [ok |-> TRUE,
              val |-> Dec(IF signed /\ s[1] = "-" THEN -mag ELSE mag, Len(fp))]
        ELSE [ok |-> FALSE, val |-> NaN]

(***************************************************************************)
(* Spreadsheet cells: None, a number (int, float or NaN) or a str.         *)
(***************************************************************************)
NoneCell == [kind |-> "none", val |-> NaN, s |-> <<>>]
NumCell(v) == [kind |-> "num", val |-> v, s |-> <<>>]
StrCell(s) == [kind |-> "str", val |-> NaN, s |-> s]

CleanKeepingPoints(s0) ==
    LET s1 == Strip(RemoveChar(RemoveChar(ReplaceChar(s0, "nbsp", " "), "%"), "permille"))
    IN  ReplaceChar(RemoveChar(s1, " "), ",", ".")

\* lines 23-24: the two chains of str.replace / strip
CleanNumberText(s0) ==
    LET s1 == Strip(RemoveChar(RemoveChar(ReplaceChar(s0, "nbsp", " "), "%"), "permille"))
    IN  ReplaceChar(RemoveChar(RemoveChar(s1, " "), "."), ",", ".")

parse_number_de(x) ==
    IF x.kind = "none" \/ (x.kind = "num" /\ x.val.nan) THEN NaN
    ELSE IF x.kind = "num" THEN x.val
    ELSE LET s == Strip(x.s)
         IN  IF s = <<>> \/ Lower(s) \in {<<"n", "a", "n">>, <<"n", "o", "n", "e">>}
             THEN NaN
             ELSE LET r == PyFloat(CleanNumberText(s))
                  IN  IF r.ok THEN r.val ELSE NaN

AsPercentBelowOne(x) ==
    LET v == parse_number_de(x)
    IN  IF v.nan THEN NaN
        ELSE IF DecLeq(Dec(0, 0), DecAbs(v)) /\ DecLeq(DecAbs(v), Dec(1, 0))
                /\ DecAbs(v) # Dec(1, 0)
             THEN Times100(v)
             ELSE v

as_percent_0_100(x) ==
    LET v == parse_number_de(x)
    IN  IF v.nan THEN NaN
        ELSE IF DecLeq(Dec(0, 0), DecAbs(v)) /\ DecLeq(DecAbs(v), Dec(1, 0))
             THEN Times100(v)
             ELSE v


(***************************************************************************)
(* Load phase (lines 62-66): df[col].apply(f), one cell at a time.         *)
(***************************************************************************)
TextAlphabet == {"0", "5", ".", ",", " ", "nbsp", "%", "permille", "-", "+"}

Texts == UNION {[1..n -> TextAlphabet] : n \in 0..MaxLen}

ExampleTexts ==
    { <<"1", ".", "2", "3", "4", ",", "5", "6">>, <<"1", "2", "%">>,
      <<"0", ",", "5">>, <<"7", "5">>, <<"1", ",", "2", ",", "3">>,
      <<"n", "a", "n">>, <<"N", "a", "N">>, <<"N", "o", "n", "e">>,
      <<" ", "N", "O", "N", "E", " ">>, <<"%", "n", "a", "n">>,
      <<"n", "o">>, <<"1", "nbsp", "0", "0", "0", ",", "5", " ", "%">> }

NumberCells ==
    {NumCell(Dec(m, e)) : m \in -MaxTenths..MaxTenths, e \in {0, 1}}
        \cup {NumCell(NaN), NoneCell}

RawCells == {StrCell(s) : s \in Texts \cup ExampleTexts} \cup NumberCells

\* line 64: a cell of a percentage column
NormalizePctCell ==
    /\ pc = "raw"
    /\ norm' = as_percent_0_100(cell)
    /\ pc' = "pct"
    /\ UNCHANGED <<carb, prot, filme, req, fig, dff, options, styles, cell>>

\* line 66: a cell of a plain numeric column
NormalizeNumCell ==
    /\ pc = "raw"
    /\ norm' = parse_number_de(cell)
    /\ pc' = "num"
    /\ UNCHANGED <<carb, prot, filme, req, fig, dff, options, styles, cell>>


(***************************************************************************)
(* Tables.  A DataFrame is [cols, rows]: rows is the sequence of its rows  *)
(* in order, each [idx |-> its index label, data |-> column -> value].     *)
(* Material and Enzym cells are strings, NA the missing value; every       *)
(* measurement cell is a float as the load phase leaves it.                *)
(***************************************************************************)
MaxRows == 2       \* rows per sheet
MaxMats == 3       \* most materials selected at once
MaxOpts == 2       \* most extra-series options ticked at once

NA == "NA"

Materials == {"A", "B"}          \* materials occurring in the sheets
Enzymes == {"E1", "E2"}          \* enzymes occurring in the sheets
MaterialChoices == <<"A", "B", "Z">>   \* what a request may name, sorted
EnzymChoices == <<"E1", "E2">>

MMColumns == {"MM1", "MM2"}

CarbColumns ==
    {"Material", "Enzym", "TS Anteil ÜS [%]", "TS Anteil Sedi [%]",
     "Löslichkeit [%]", "cglc [μM]", "pH (vor)", "pH (nach)"}

ProtColumns ==
    {"Material", "Enzym", "TS Anteil ÜS [%]", "TS Anteil Sedi [%]",
     "Löslichkeit [%]", "DH [%]", "pH (vor)", "pH (nach)"} \cup MMColumns

FilmeScores ==
    {"Homogenität", "Stabilität", "Adhäsion Schale", "Adhäsion Oberfläche",
     "Kohäsion", "Geruch"}

FilmeColumns == {"Material", "Versuchsnr.", "Summe"} \cup FilmeScores

\* The measurement written in row i of a sheet: sheet data, fixed per position.
Measurement(col, i) ==
    CASE col = "TS Anteil ÜS [%]" -> Dec(30 + 10 * i, 0)
      [] col = "TS Anteil Sedi [%]" -> Dec(70 - 10 * i, 0)
      [] col = "Löslichkeit [%]" -> Dec(125 * i, 1)
      [] col = "pH (vor)" -> Dec(7, 0)
      [] col = "pH (nach)" -> IF i = 2 THEN NaN ELSE Dec(65 + 10 * i, 1)
      [] col = "MM1" -> Dec(20 * i, 0)
      [] col = "MM2" -> IF i = 1 THEN NaN ELSE Dec(100 - 15 * i, 0)
      [] OTHER -> Dec(i, 0)

\* line 46: after ffill a Material is missing only above the first one given
FFilled(keys) ==
    \A i \in 2..Len(keys) : keys[i].Material = NA => keys[i - 1].Material = NA

Key(m, e) == [Material |-> m, Enzym |-> e]

\* the key cells a sheet row can hold
SheetKeys ==
    {Key("A", "E1"), Key("A", "E2"), Key("B", "E1"), Key("A", NA), Key(NA, "E1")}

SheetLayouts ==
    {k \in UNION {[1..n -> SheetKeys] : n \in 0..MaxRows} : FFilled(k)}

\* the sheet with the given key cells and columns
Sheet(keys, cols) ==
    [cols |-> cols,
     rows |-> [i \in 1..Len(keys) |->
                 [idx |-> i,
                  data |-> [c \in cols |->
                              IF c = "Material" THEN keys[i].Material
                              ELSE IF c = "Enzym" THEN keys[i].Enzym
                              ELSE Measurement(c, i)]]]]


(***************************************************************************)
(* Frames inside a handler.  canonical says whether the Python object is   *)
(* the module-global table itself (TRUE) or an object of the handler's own *)
(* (FALSE): a column assignment to the former changes the global.          *)
(***************************************************************************)
Global(df) == [cols |-> df.cols, rows |-> df.rows, canonical |-> TRUE]

CopyAliased(frame) == frame

\* DataFrame.copy()
Copy(frame) == [frame EXCEPT !.canonical = FALSE]

WhereInOrMissing(frame, col, values) ==
    [cols |-> frame.cols,
     rows |-> SelectSeq(frame.rows, LAMBDA row : row.data[col] \in values \cup {NA}),
     canonical |-> FALSE]

\* frame[frame[col].isin(values)] and frame[frame[col] == value]: a new object
\* holding the matching rows, in order, under their index labels
WhereIn(frame, col, values) ==
    [cols |-> frame.cols,
     rows |-> SelectSeq(frame.rows, LAMBDA row : row.data[col] \in values),
     canonical |-> FALSE]

\* frame[col] = f(row) for every row: the object itself gains the column
WithColumn(frame, col, f(_)) ==
    [frame EXCEPT
        !.cols = @ \cup {col},
        !.rows = [i \in 1..Len(@) |->
                    [idx |-> @[i].idx,
                     data |-> [c \in frame.cols \cup {col} |->
                                 IF c = col THEN f(@[i]) ELSE @[i].data[c]]]]]

NeverEmpty(frame) == FALSE

\* DataFrame.empty
Empty(frame) == frame.rows = <<>> \/ frame.cols = {}

Range(seq) == {seq[i] : i \in 1..Len(seq)}

\* a - b and abs() on floats; NaN propagates
DecSub(a, b) ==
    IF a.nan \/ b.nan THEN NaN
    ELSE LET e == IF a.e >= b.e THEN a.e ELSE b.e
         IN  Dec(a.m * Pow10(e - a.e) - b.m * Pow10(e - b.e), e)

DecAbsNaN(v) == IF v.nan THEN NaN ELSE DecAbs(v)

(***************************************************************************)
(* Figures.  status is "ok" for a returned figure and the exception name   *)
(* when the handler raised instead.                                        *)
(***************************************************************************)
NoAxis == [set |-> FALSE, cmin |-> [n |-> 0, d |-> 1], cmax |-> [n |-> 0, d |-> 1]]

Figure(template, title) ==
    [status |-> "ok", template |-> template, title |-> title, title_arg |-> "",
     legend |-> "default", barmode |-> "default", traces |-> <<>>,
     annotations |-> <<>>, coloraxis |-> NoAxis]

Raised(exception) == [Figure("", "") EXCEPT !.status = exception]

NoFigure == [Figure("", "") EXCEPT !.status = "none"]

\* make_subplots(...): a fresh figure, no template or title of its own
make_subplots(annotations) ==
    [Figure("default", "") EXCEPT !.annotations = annotations]

Bar(col, name) == [type |-> "bar", name |-> name, y |-> col, secondary_y |-> FALSE]
Scatter(col, name) == [type |-> "scatter", name |-> name, y |-> col, secondary_y |-> TRUE]

TitleSelect == "Bitte Daten auswählen"
TitleCarb == "Carbohydratasen - TS-Verteilung & Zusatzdaten"
TitleProt == "Proteasen - TS-Verteilung & Zusatzdaten"
TitleFilme == "Filme - Gesamtbewertung"
\* the Cyrillic titles of lines 213-250, transliterated; dashes are "-"
TitleTooMany == "Slishkom mnogo materialov dlya sravneniya"
TitleSelectMM == "Proteasen - Pozhaluysta, vyberite MM-frakcii"
TitleCompare == "Proteasen - Sravnenie MM-frakciy"
TitleHeatmapOne == "Proteasen - Heatmap MM-frakciy (material)"
TitleHeatmapAll == "Proteasen - Heatmap MM-frakciy (srednee po vsem)"
TextTooMany == "Pozhaluysta, vyberite ne bolee dvuh materialov dlya teplovoy karty."

\* legend=dict(orientation="h", y=-0.25 / -0.2, yanchor="bottom")
LegendBelow == "h_below"

(***************************************************************************)
(* traces_to_add (lines 172-175 and 194-197): option -> <<column, name>>*  *)
(***************************************************************************)
CarbOptions == {"loes", "glc", "deltaph", "ph"}
ProtOptions == {"loes", "dh", "deltaph", "ph"}

traces_to_add(dataset, opt) ==
    CASE opt = "loes" -> << <<"Löslichkeit [%]", "Proteinlöslichkeit [%]">> >>
      [] opt = "glc" /\ dataset = "carb" ->
            << <<"cglc [μM]", "Reduzierende Zucker [µM]">> >>
      [] opt = "dh" /\ dataset = "prot" -> << <<"DH [%]", "Hydrolysegrad [%]">> >>
      [] opt = "deltaph" -> << <<"abs(ΔpH)", "abs(ΔpH)">> >>
      [] opt = "ph" -> << <<"pH (vor)", "pH (vor)">>, <<"pH (nach)", "pH (nach)">> >>

\* the loop of lines 176-180 / 198-202 from option number k on: the figure with
\* the option's series appended, or KeyError at the first column dff lacks
RECURSIVE AddOptionTraces(_, _, _, _, _)
AddOptionTraces(f, frame, dataset, opts, k) ==
    IF k > Len(opts) THEN f
    ELSE IF opts[k] \notin (IF dataset = "carb" THEN CarbOptions ELSE ProtOptions)
    THEN Raised("KeyError")
    ELSE LET pairs == traces_to_add(dataset, opts[k])
             missing == \E j \in 1..Len(pairs) : pairs[j][1] \notin frame.cols
             added == [j \in 1..Len(pairs) |-> Scatter(pairs[j][1], pairs[j][2])]
         IN  IF missing THEN Raised("KeyError")
             ELSE AddOptionTraces([f EXCEPT !.traces = @ \o added],
                                  frame, dataset, opts, k + 1)

\* lines 167-185 and 189-207: the distribution view of carb and prot
Distribution(frame0, dataset, opts) ==
    IF ~({"pH (nach)", "pH (vor)"} \subseteq frame0.cols)
    THEN [fig |-> Raised("KeyError"), dff |-> frame0]
    ELSE
    LET frame == WithColumn(frame0, "abs(ΔpH)",
                    LAMBDA row : DecAbsNaN(DecSub(row.data["pH (nach)"],
                                                  row.data["pH (vor)"])))
        bars == << Bar("TS Anteil ÜS [%]", "TS Überstand [%]"),
                   Bar("TS Anteil Sedi [%]", "TS Sediment [%]") >>
        f1 == [make_subplots(<<>>) EXCEPT !.traces = bars]
        f2 == AddOptionTraces(f1, frame, dataset, opts, 1)
    IN  IF ~({"Enzym", "TS Anteil ÜS [%]", "TS Anteil Sedi [%]"} \subseteq frame.cols)
        THEN [fig |-> Raised("KeyError"), dff |-> frame]
        ELSE IF f2.status # "ok" THEN [fig |-> f2, dff |-> frame]
        ELSE [fig |-> [f2 EXCEPT !.barmode = "stack",
                                 !.title = IF dataset = "carb" THEN TitleCarb
                                           ELSE TitleProt,
                                 !.legend = LegendBelow,
                                 !.template = "plotly_white"],
              dff |-> frame]


(***************************************************************************)
(* Pivot tables of the heatmap view.  A mean is an exact fraction n/d in   *)
(* lowest terms.                                                           *)
(***************************************************************************)
RECURSIVE GCD(_, _)
GCD(a, b) == IF b = 0 THEN a ELSE GCD(b, a % b)

Rat(n, d) == LET g == GCD(Abs(n), d) IN [n |-> n \div g, d |-> d \div g]

RatAdd(a, b) == Rat(a.n * b.d + b.n * a.d, a.d * b.d)
RatLeq(a, b) == a.n * b.d <= b.n * a.d
RatOfDec(v) == Rat(v.m, Pow10(v.e))

RECURSIVE RatSum(_)
RatSum(vals) == IF vals = <<>> THEN Rat(0, 1) ELSE RatAdd(RatOfDec(Head(vals)), RatSum(Tail(vals)))

\* melt(id_vars="Enzym", value_vars=mm).pivot_table(index="MM-Fraktion",
\* columns="Enzym", values="Anteil [%]", aggfunc='mean'): the mean of the values
\* present per (fraction, enzyme); groups without a value and rows without an
\* enzyme are dropped
pivot_table(frame, mm) ==
    LET vals(m, e) ==
            LET hit == SelectSeq(frame.rows,
                          LAMBDA row : row.data["Enzym"] = e /\ ~row.data[m].nan)
            IN  [i \in 1..Len(hit) |-> hit[i].data[m]]
        enzs == {frame.rows[i].data["Enzym"] : i \in 1..Len(frame.rows)} \ {NA}
        cells == {c \in mm \X enzs : vals(c[1], c[2]) # <<>>}
    IN  [c \in cells |->
            LET v == vals(c[1], c[2]) s == RatSum(v)
            IN  Rat(s.n, s.d * Len(v))]

PivotEmpty(p) == DOMAIN p = {}
PivotValues(p) == {p[c] : c \in DOMAIN p}
RatMin(S) == CHOOSE a \in S : \A b \in S : RatLeq(a, b)
RatMax(S) == CHOOSE a \in S : \A b \in S : RatLeq(b, a)

Heatmap(p, axis) == [type |-> "heatmap", z |-> p, coloraxis |-> axis]

ZMinOfFirstPivot(pivot1, pivot2) ==
    IF ~PivotEmpty(pivot1) /\ ~PivotEmpty(pivot2)
    THEN RatMin(PivotValues(pivot1))
    ELSE Rat(0, 1)

\* line 232: min(pivot1.min().min(), pivot2.min().min()) if neither pivot is
\* empty, else 0
z_min(pivot1, pivot2) ==
    IF ~PivotEmpty(pivot1) /\ ~PivotEmpty(pivot2)
    THEN RatMin(PivotValues(pivot1) \cup PivotValues(pivot2))
    ELSE Rat(0, 1)

\* line 233: max(pivot1.max().max(), pivot2.max().max()) if neither pivot is
\* empty, else 100
z_max(pivot1, pivot2) ==
    IF ~PivotEmpty(pivot1) /\ ~PivotEmpty(pivot2)
    THEN RatMax(PivotValues(pivot1) \cup PivotValues(pivot2))
    ELSE Rat(100, 1)

TooManyAboveThree(num_mats) == num_mats > 3

\* line 212: if num_mats > 2
TooManyMaterials(num_mats) == num_mats > 2

NeverWithoutFractions(mm_present) == FALSE

\* lines 222 and 247: if not mm_present
WithoutFractions(mm_present) == mm_present = {}

\* lines 209-257: the heatmap view of prot.  imshow is what px.imshow does with
\* an empty pivot: "figure" or the name of the exception it raises.
HeatmapView(fig0, frame, mats, mm_selected, imshow) ==
    LET num_mats == Len(mats)
        mm_present == mm_selected \cap frame.cols
    IN  IF TooManyMaterials(num_mats)
        THEN [fig0 EXCEPT !.title = TitleTooMany, !.annotations = <<TextTooMany>>]
        ELSE IF num_mats = 2
        THEN LET sub == make_subplots(<<mats[1], mats[2]>>)
                 pivot1 == pivot_table(WhereIn(frame, "Material", {mats[1]}), mm_present)
                 pivot2 == pivot_table(WhereIn(frame, "Material", {mats[2]}), mm_present)
             IN  IF WithoutFractions(mm_present) THEN [sub EXCEPT !.title = TitleSelectMM]
                 ELSE IF ~({"Material", "Enzym"} \subseteq frame.cols)
                 THEN Raised("KeyError")
                 ELSE [sub EXCEPT
                         !.traces = << Heatmap(pivot1, "coloraxis1"),
                                       Heatmap(pivot2, "coloraxis1") >>,
                         !.title = TitleCompare,
                         !.coloraxis = [set |-> TRUE,
                                        cmin |-> z_min(pivot1, pivot2),
                                        cmax |-> z_max(pivot1, pivot2)],
                         !.template = "plotly_white"]
        ELSE IF WithoutFractions(mm_present) THEN [fig0 EXCEPT !.title = TitleSelectMM]
             ELSE IF "Enzym" \notin frame.cols THEN Raised("KeyError")
             ELSE LET pivot == pivot_table(frame, mm_present)
                  IN  IF PivotEmpty(pivot) /\ imshow # "figure" THEN Raised(imshow)
                      ELSE [Figure("plotly_white",
                                   IF num_mats = 1 THEN TitleHeatmapOne
                                   ELSE TitleHeatmapAll) EXCEPT
                              !.title_arg = IF num_mats = 1 THEN mats[1] ELSE "",
                              !.traces = <<Heatmap(pivot, "coloraxis")>>]

FilmeViewDefaultLegend(frame) ==
    IF ~(FilmeColumns \subseteq frame.cols) THEN Raised("ValueError")
    ELSE [Figure("plotly_white", TitleFilme) EXCEPT
            !.traces = <<[type |-> "bar", name |-> "", y |-> "Summe",
                          secondary_y |-> FALSE]>>]

\* lines 259-265: px.bar(dff, x="Versuchsnr.", y="Summe", color="Material", ...),
\* one bar series per material in order of first appearance
FilmeView(frame) ==
    LET n == Len(frame.rows)
        mat(i) == frame.rows[i].data["Material"]
        firsts == SelectSeq([i \in 1..n |-> i],
                      LAMBDA i : mat(i) # NA /\ \A j \in 1..(i - 1) : mat(j) # mat(i))
    IN  IF ~(FilmeColumns \subseteq frame.cols) THEN Raised("ValueError")
        ELSE [Figure("plotly_white", TitleFilme) EXCEPT
                !.legend = LegendBelow,
                !.traces = [k \in 1..Len(firsts) |->
                              [type |-> "bar", name |-> mat(firsts[k]), y |-> "Summe",
                               secondary_y |-> FALSE]]]

\* df_map.get(dataset, carb)
df_map_get(dataset) ==
    CASE dataset = "carb" -> carb [] dataset = "prot" -> prot
      [] dataset = "filme" -> filme [] OTHER -> carb

\* lines 157-267.  The result is the figure returned (or the exception raised)
\* and the frame dff as the handler leaves it.
update_plot(dataset, mats, enz, carb_opts, prot_opts, prot_view, mm_selected, imshow) ==
    LET fig0 == Figure("plotly_white", TitleSelect)
        d0 == Copy(Global(df_map_get(dataset)))
        d1 == IF "Material" \in d0.cols /\ mats # <<>>
              THEN WhereIn(d0, "Material", Range(mats)) ELSE d0
        d2 == IF "Enzym" \in d1.cols /\ enz # {}
              THEN WhereIn(d1, "Enzym", enz) ELSE d1
    IN  IF Empty(d2) THEN [fig |-> fig0, dff |-> d2]
        ELSE IF dataset = "carb" THEN Distribution(d2, "carb", carb_opts)
        ELSE IF dataset = "prot" /\ prot_view = "distribution"
        THEN Distribution(d2, "prot", prot_opts)
        ELSE IF dataset = "prot" /\ prot_view = "heatmap"
        THEN [fig |-> HeatmapView(fig0, d2, mats, mm_selected, imshow), dff |-> d2]
        ELSE IF dataset = "filme" THEN [fig |-> FilmeView(d2), dff |-> d2]
        ELSE [fig |-> fig0, dff |-> d2]

\* sorted(values) for the values of one of the sorted choice lists
Sorted(order, values) == SelectSeq(order, LAMBDA v : v \in values)

\* lines 125-130
update_dropdowns(dataset) ==
    LET df == df_map_get(dataset)
        column(c) == {df.rows[i].data[c] : i \in 1..Len(df.rows)} \ {NA}
    IN  IF "Material" \notin df.cols
        THEN [status |-> "KeyError", mats |-> <<>>, enz |-> <<>>]
        ELSE [status |-> "ok",
              mats |-> Sorted(MaterialChoices, column("Material")),
              enz |-> IF "Enzym" \in df.cols
                      THEN Sorted(EnzymChoices, column("Enzym")) ELSE <<>>]

\* lines 136-138
toggle_option_visibility(dataset) ==
    [carb |-> IF dataset = "carb" THEN "block" ELSE "none",
     prot |-> IF dataset = "prot" THEN "block" ELSE "none"]

\* lines 144-147
toggle_prot_sub_options(dataset, view) ==
    IF dataset # "prot" THEN [ts |-> "none", heatmap |-> "none"]
    ELSE [ts |-> IF view = "distribution" THEN "block" ELSE "none",
          heatmap |-> IF view = "heatmap" THEN "block" ELSE "none"]


(***************************************************************************)
(* Requests: the values the seven input components can hold.  The inputs a *)
(* branch of update_plot never reads stay at their layout value (lines 96, *)
(* 102, 108, 113).                                                         *)
(***************************************************************************)
NoDupLists(S, n) ==
    {q \in UNION {[1..k -> S] : k \in 0..n} :
        \A i, j \in 1..Len(q) : i # j => q[i] # q[j]}

MatLists == NoDupLists(Range(MaterialChoices), MaxMats)
EnzSets == SUBSET Range(EnzymChoices)
Views == {"distribution", "heatmap"}
Datasets == {"carb", "prot", "filme", "other"}

DefaultCarbOpts == <<"loes", "glc", "deltaph">>
DefaultProtOpts == <<"loes", "dh", "deltaph">>

Request(d, m, e, co, po, v, mm) ==
    [dataset |-> d, mats |-> m, enz |-> e, carb_opts |-> co, prot_opts |-> po,
     prot_view |-> v, mm_selected |-> mm]

\* every dataset and view, under every filter; the checklists all or nothing
Requests ==
    {Request("carb", m, e, co, DefaultProtOpts, "distribution", MMColumns) :
        m \in MatLists, e \in EnzSets, co \in {<<>>, DefaultCarbOpts}}
    \cup
    {Request("prot", m, e, DefaultCarbOpts, po, "distribution", MMColumns) :
        m \in MatLists, e \in EnzSets, po \in {<<>>, DefaultProtOpts}}
    \cup
    {Request("prot", m, e, DefaultCarbOpts, DefaultProtOpts, "heatmap", mm) :
        m \in MatLists, e \in EnzSets, mm \in SUBSET MMColumns}
    \cup
    {Request(d, m, e, DefaultCarbOpts, DefaultProtOpts, v, MMColumns) :
        d \in {"filme", "other"}, m \in MatLists, e \in EnzSets, v \in Views}

\* the distribution views under every ticking order of the checklists
OptionRequests ==
    {Request("carb", m, e, co, DefaultProtOpts, "distribution", MMColumns) :
        m \in {<<>>, <<"A">>}, e \in EnzSets, co \in NoDupLists(CarbOptions, MaxOpts)}
    \cup
    {Request("prot", m, e, DefaultCarbOpts, po, "distribution", MMColumns) :
        m \in {<<>>, <<"A">>}, e \in EnzSets, po \in NoDupLists(ProtOptions, MaxOpts)}

\* the values one input component can be changed to
InputValues(k) ==
    CASE k = "dataset" -> Datasets
      [] k = "mats" -> MatLists
      [] k = "enz" -> EnzSets
      [] k = "carb_opts" -> NoDupLists(CarbOptions, MaxOpts) \cup {DefaultCarbOpts}
      [] k = "prot_opts" -> NoDupLists(ProtOptions, MaxOpts) \cup {DefaultProtOpts}
      [] k = "prot_view" -> Views
      [] k = "mm_selected" -> SUBSET MMColumns

ImshowOutcomes == {"figure", "ValueError"}

(***************************************************************************)
(* Serving.  One input component changes at a time; Dash then calls every  *)
(* callback with the current values of its inputs.                         *)
(***************************************************************************)
Unset == [status |-> "unset", mats |-> <<>>, enz |-> <<>>]
NoStyles == [main |-> [carb |-> "unset", prot |-> "unset"],
             sub |-> [ts |-> "unset", heatmap |-> "unset"]]
NoFrame == [cols |-> {}, rows |-> <<>>, canonical |-> FALSE]

\* sheets that lack one of the optional columns
DroppedColumns == {{}, {"cglc [μM]"}, {"DH [%]"}, {"MM2"}}

\* the three sheets as loaded: the same key cells in each, Filme without enzymes
Loaded(keys, drop) ==
    /\ carb = Sheet(keys, CarbColumns \ drop)
    /\ prot = Sheet(keys, ProtColumns \ drop)
    /\ filme = Sheet(keys, FilmeColumns)

\* page load: every callback is about to be called with the inputs' values
PageLoad(requests) ==
    /\ req \in requests
    /\ fig = NoFigure
    /\ dff = NoFrame
    /\ options = Unset
    /\ styles = NoStyles
    /\ pc = "update_dropdowns"
    /\ cell = NoneCell
    /\ norm = NaN

Init ==
    /\ \E keys \in SheetLayouts, drop \in DroppedColumns :
          /\ drop # {} => keys = <<Key("A", "E1")>>
          /\ Loaded(keys, drop)
    /\ PageLoad(Requests)

OptionInit ==
    /\ \E keys \in {<<Key("A", "E1")>>, <<Key("A", "E1"), Key("B", "E1")>>},
          drop \in DroppedColumns : Loaded(keys, drop)
    /\ PageLoad(OptionRequests)

\* the user changes one input component
Select(requests) ==
    /\ pc = "idle"
    /\ \E k \in DOMAIN req : \E v \in InputValues(k) :
          /\ v # req[k]
          /\ [req EXCEPT ![k] = v] \in requests
          /\ req' = [req EXCEPT ![k] = v]
    /\ fig' = NoFigure
    /\ dff' = NoFrame
    /\ options' = Unset
    /\ styles' = NoStyles
    /\ pc' = "update_dropdowns"
    /\ UNCHANGED <<carb, prot, filme, cell, norm>>

SelectInput == Select(Requests)

SelectOption == Select(OptionRequests)

UpdateDropdowns ==
    /\ pc = "update_dropdowns"
    /\ options' = update_dropdowns(req.dataset)
    /\ pc' = "toggle_option_visibility"
    /\ UNCHANGED <<carb, prot, filme, req, fig, dff, styles, cell, norm>>

ToggleOptionVisibility ==
    /\ pc = "toggle_option_visibility"
    /\ styles' = [styles EXCEPT !.main = toggle_option_visibility(req.dataset)]
    /\ pc' = "toggle_prot_sub_options"
    /\ UNCHANGED <<carb, prot, filme, req, fig, dff, options, cell, norm>>

ToggleProtSubOptions ==
    /\ pc = "toggle_prot_sub_options"
    /\ styles' = [styles EXCEPT !.sub = toggle_prot_sub_options(req.dataset, req.prot_view)]
    /\ pc' = "update_plot"
    /\ UNCHANGED <<carb, prot, filme, req, fig, dff, options, cell, norm>>

\* the global table named name once the handler has left the frame out.dff behind
Stored(name, current, out) ==
    IF out.dff.canonical /\ name = (IF req.dataset \in {"prot", "filme"}
                                    THEN req.dataset ELSE "carb")
    THEN [cols |-> out.dff.cols, rows |-> out.dff.rows]
    ELSE current

UpdatePlot ==
    /\ pc = "update_plot"
    /\ \E imshow \in ImshowOutcomes :
          LET out == update_plot(req.dataset, req.mats, req.enz, req.carb_opts,
                                 req.prot_opts, req.prot_view, req.mm_selected, imshow)
          IN  /\ fig' = out.fig
              /\ dff' = out.dff
              /\ carb' = Stored("carb", carb, out)
              /\ prot' = Stored("prot", prot, out)
              /\ filme' = Stored("filme", filme, out)
    /\ pc' = "idle"
    /\ UNCHANGED <<req, options, styles, cell, norm>>

Next ==
    \/ SelectInput
    \/ UpdateDropdowns
    \/ ToggleOptionVisibility
    \/ ToggleProtSubOptions
    \/ UpdatePlot

Spec == Init /\ [][Next]_vars

OptionNext ==
    \/ SelectOption
    \/ UpdateDropdowns
    \/ ToggleOptionVisibility
    \/ ToggleProtSubOptions
    \/ UpdatePlot

OptionSpec == OptionInit /\ [][OptionNext]_vars

(***************************************************************************)
(* The load phase on one cell of one column.                               *)
(***************************************************************************)
InitLoad ==
    /\ cell \in RawCells
    /\ norm = NaN
    /\ pc = "raw"
    /\ Loaded(<<>>, {})
    /\ req = Request("carb", <<>>, {}, DefaultCarbOpts, DefaultProtOpts,
                     "distribution", MMColumns)
    /\ fig = NoFigure
    /\ dff = NoFrame
    /\ options = Unset
    /\ styles = NoStyles

NextLoad == NormalizePctCell \/ NormalizeNumCell

LoadSpec == InitLoad /\ [][NextLoad]_vars


(***************************************************************************)
(* Properties.  A render is complete when the dispatch is back at "idle":  *)
(* fig and dff are then what update_plot made of req.                      *)
(***************************************************************************)
Rendered == pc = "idle"

InDistribution ==
    req.dataset = "carb" \/ (req.dataset = "prot" /\ req.prot_view = "distribution")

InHeatmap == req.dataset = "prot" /\ req.prot_view = "heatmap"

\* the checklist the distribution view of the active dataset reads
EnabledOptions == IF req.dataset = "carb" THEN req.carb_opts ELSE req.prot_opts

ActiveTable == df_map_get(req.dataset)

\* the rows of the active table that the material and enzyme selections allow
RowsLeft ==
    LET t == ActiveTable
    IN  {i \in 1..Len(t.rows) :
           /\ req.mats = <<>> \/ "Material" \notin t.cols
                \/ t.rows[i].data["Material"] \in Range(req.mats)
           /\ req.enz = {} \/ "Enzym" \notin t.cols
                \/ t.rows[i].data["Enzym"] \in req.enz}

\* update_plot on the current request with the options delivered as opts
RenderedWith(opts) ==
    update_plot(req.dataset, req.mats, req.enz,
                IF req.dataset = "carb" THEN opts ELSE req.carb_opts,
                IF req.dataset = "carb" THEN req.prot_opts ELSE opts,
                req.prot_view, req.mm_selected, "figure").fig

\* C1: in the distribution view the series list does not depend on the order in
\* which the enabled options are delivered: every permutation of the delivered
\* list yields the same series, in the same order.
C1_OptionOrderInvariance ==
    (Rendered /\ InDistribution /\ fig.status = "ok")
        => \A q \in NoDupLists(Range(EnabledOptions), Len(EnabledOptions)) :
              Len(q) = Len(EnabledOptions) => RenderedWith(q).traces = fig.traces

\* the columns an option's series read from the sheet
OptionColumns(opt) ==
    IF opt = "deltaph" THEN {"pH (vor)", "pH (nach)"}
    ELSE LET pairs == traces_to_add(req.dataset, opt)
         IN  {pairs[j][1] : j \in 1..Len(pairs)}

OptionNames(opt) ==
    LET pairs == traces_to_add(req.dataset, opt) IN {pairs[j][2] : j \in 1..Len(pairs)}

\* C4: in the distribution view an enabled option whose column the table lacks
\* adds no series and raises nothing: the chart returned holds the two bar series
\* and the series of every other enabled option.
C4_MissingColumnSkipped ==
    (/\ Rendered /\ InDistribution /\ RowsLeft # {}
     /\ \E opt \in Range(EnabledOptions) : ~(OptionColumns(opt) \subseteq ActiveTable.cols))
        => /\ fig.status = "ok"
           /\ Len(fig.traces) >= 2
           /\ fig.traces[1].type = "bar" /\ fig.traces[2].type = "bar"
           /\ {fig.traces[i].name : i \in 3..Len(fig.traces)}
                = UNION {OptionNames(opt) :
                           opt \in {o \in Range(EnabledOptions) :
                                       OptionColumns(o) \subseteq ActiveTable.cols}}

\* C2 as claimed: in the heatmap view more than two selected materials always
\* give the "too many materials" placeholder.
C2_TooManyAlways ==
    (Rendered /\ InHeatmap /\ Len(req.mats) > 2)
        => fig.status = "ok" /\ fig.title = TitleTooMany

\* C2 (amended): in the heatmap view, more than two selected materials give the
\* "too many materials" placeholder (no series), whatever the enzyme filter and
\* the MM fractions, provided the filters leave a row; when they leave none the
\* empty-data placeholder is returned instead.
C2_TooManyWhenRowsLeft ==
    (Rendered /\ InHeatmap /\ Len(req.mats) > 2)
        => /\ fig.status = "ok" /\ fig.traces = <<>>
           /\ fig.title = IF RowsLeft # {} THEN TitleTooMany ELSE TitleSelect

C2_Witness ==
    /\ Rendered /\ InHeatmap /\ Len(req.mats) > 2 /\ RowsLeft # {}
    /\ req.enz # {} /\ req.mm_selected = {}
    /\ fig.title = TitleTooMany

\* C3 as claimed: in the heatmap view no selected MM fraction always gives the
\* "select MM fractions" placeholder, for every number of selected materials.
C3_SelectFractionsAlways ==
    (Rendered /\ InHeatmap /\ req.mm_selected = {})
        => fig.status = "ok" /\ fig.title = TitleSelectMM

\* C3 (amended): in the heatmap view with no MM fraction selected, the "select MM
\* fractions" placeholder is returned for 0, 1 and 2 selected materials provided
\* the filters leave a row; more than two materials give the "too many
\* materials" placeholder and no row left gives the empty-data placeholder.
C3_SelectFractionsUpToTwo ==
    (Rendered /\ InHeatmap /\ req.mm_selected = {})
        => /\ fig.status = "ok" /\ fig.traces = <<>>
           /\ fig.title = IF RowsLeft = {} THEN TitleSelect
                          ELSE IF Len(req.mats) > 2 THEN TitleTooMany
                          ELSE TitleSelectMM

C3_Witness ==
    /\ Rendered /\ InHeatmap /\ req.mm_selected = {} /\ Len(req.mats) = 2
    /\ RowsLeft # {} /\ fig.title = TitleSelectMM

\* C5: when the material and enzyme filters leave no row, update_plot returns the
\* empty placeholder titled 'Bitte Daten auswählen' without series, computes no
\* derived column and raises nothing, for every dataset, view and selection.
C5_EmptyPlaceholder ==
    (Rendered /\ RowsLeft = {})
        => /\ fig = Figure("plotly_white", TitleSelect)
           /\ dff.rows = <<>>
           /\ dff.cols = ActiveTable.cols

C5_Witness ==
    /\ Rendered /\ RowsLeft = {} /\ ActiveTable.rows # <<>>
    /\ InDistribution /\ EnabledOptions # <<>>
    /\ fig.title = TitleSelect


RowIds(frame) == [i \in 1..Len(frame.rows) |-> frame.rows[i].idx]

\* every row of dff carries the cells of the table row it is labelled with
CellsKept ==
    \A i \in 1..Len(dff.rows) :
        \A c \in ActiveTable.cols :
            dff.rows[i].data[c] = ActiveTable.rows[dff.rows[i].idx].data[c]

\* the selection names exactly the values the selectors offer, or nothing
FullSelection ==
    /\ options.status = "ok"
    /\ req.mats = <<>> \/ Range(req.mats) = Range(options.mats)
    /\ req.enz = {} \/ req.enz = Range(options.enz)

\* C6 as claimed: filtering by all the Material values (and all the Enzym values)
\* the selectors offer keeps every row of the table, in order.
C6_FullSelectionKeepsAll ==
    (Rendered /\ FullSelection)
        => RowIds(dff) = [i \in 1..Len(ActiveTable.rows) |-> i] /\ CellsKept

\* C6 (amended): filtering by all the Material values (all the Enzym values) the
\* selectors offer keeps, in their original order and with their cells, exactly
\* the rows whose Material (Enzym) cell is not missing; that is the row sequence
\* of the empty selection when no such cell is missing.
C6_FullSelectionKeepsPresent ==
    (Rendered /\ FullSelection)
        => /\ RowIds(dff) =
                SelectSeq([i \in 1..Len(ActiveTable.rows) |-> i],
                    LAMBDA i :
                        /\ req.mats = <<>> \/ ActiveTable.rows[i].data["Material"] # NA
                        /\ req.enz = {} \/ ActiveTable.rows[i].data["Enzym"] # NA)
           /\ CellsKept

C6_Witness ==
    /\ Rendered /\ FullSelection
    /\ Len(req.mats) = 2 /\ Cardinality(req.enz) = 1
    /\ Len(ActiveTable.rows) = 2 /\ RowIds(dff) = <<1, 2>>

\* C9: once loaded, no step of any callback changes the tables carb, prot and
\* filme.
C9_TablesNeverChange == [][carb' = carb /\ prot' = prot /\ filme' = filme]_vars

C9_Witness ==
    /\ Rendered /\ req.dataset = "carb" /\ req.mats = <<>> /\ req.enz = {}
    /\ "abs(ΔpH)" \in dff.cols /\ Len(dff.rows) = 2
    /\ "abs(ΔpH)" \notin carb.cols

\* C10 as claimed: every chart returned carries the white theme, a horizontal
\* legend below the plot and a title.
C10_EveryChartThemed ==
    (Rendered /\ fig.status = "ok")
        => fig.template = "plotly_white" /\ fig.legend = LegendBelow /\ fig.title # ""

\* C10 (amended): every chart returned carries a title; it carries the white theme
\* on every return path but the "select MM fractions" placeholder of two selected
\* materials; it carries the horizontal legend below the plot exactly on the carb
\* and prot distribution charts and the Filme chart.
C10_ThemeLegendTitle ==
    (Rendered /\ fig.status = "ok")
        => /\ fig.title # ""
           /\ fig.template = "plotly_white"
                <=> ~(InHeatmap /\ Len(req.mats) = 2 /\ fig.title = TitleSelectMM)
           /\ fig.legend = LegendBelow
                <=> (RowsLeft # {} /\ (InDistribution \/ req.dataset = "filme"))

C10_Witness ==
    /\ Rendered /\ fig.status = "ok" /\ InHeatmap /\ Len(req.mats) = 2
    /\ fig.title = TitleSelectMM /\ fig.template # "plotly_white"
    /\ fig.legend # LegendBelow

(***************************************************************************)
(* Properties of the load phase.                                           *)
(***************************************************************************)
InPercentRange(v) == ~v.nan /\ DecLeq(Dec(0, 0), v) /\ DecLeq(v, Dec(100, 0))

\* C7 as claimed: as_percent_0_100 leaves every number from 0 to 100 as it is.
C7_IdentityOnPercent ==
    (pc = "pct" /\ cell.kind = "num" /\ InPercentRange(cell.val)) => norm = cell.val

\* C7 (amended): as_percent_0_100 leaves 0 and every number above 1 up to 100 as
\* it is, and multiplies every number above 0 up to 1 by 100; so a percentage
\* column without missing values whose values are 0 or lie above 1 and at most
\* 100 is unchanged by the normalisation loop.
C7_IdentityAboveOne ==
    (pc = "pct" /\ cell.kind = "num" /\ InPercentRange(cell.val))
        => norm = IF DecLeq(cell.val, Dec(1, 0))
                  THEN Dec(cell.val.m * 100, cell.val.e)
                  ELSE cell.val

C7_Witness ==
    pc = "pct" /\ cell = NumCell(Dec(755, 1)) /\ norm = Dec(755, 1)

\* the text with every space, "%", permille sign and "." deleted and every ","
\* replaced by "."
Cleaned(s) ==
    LET kept == SelectSeq(s, LAMBDA c : c \notin {" ", "nbsp", "%", "permille", "."})
    IN  [i \in 1..Len(kept) |-> IF kept[i] = "," THEN "." ELSE kept[i]]

Unsigned(t) == IF t # <<>> /\ t[1] \in {"+", "-"} THEN Tail(t) ELSE t

\* a decimal numeral: an optional sign, digits, at most one point among them
IsNumeral(t) ==
    LET u == Unsigned(t)
    IN  /\ \A i \in 1..Len(u) : u[i] \in Digits \cup {"."}
        /\ Cardinality({i \in 1..Len(u) : u[i] = "."}) <= 1
        /\ \E i \in 1..Len(u) : u[i] \in Digits

RECURSIVE PlaceValue(_, _)
PlaceValue(ds, i) ==
    IF i > Len(ds) THEN 0
    ELSE DigitVal(ds[i]) * Pow10(Len(ds) - i) + PlaceValue(ds, i + 1)

\* the number a decimal numeral denotes
NumeralValue(t) ==
    LET u == Unsigned(t)
        ds == SelectSeq(u, LAMBDA c : c # ".")
        point == {i \in 1..Len(u) : u[i] = "."}
        decimals == IF point = {} THEN 0 ELSE Len(u) - SetMin(point)
        mag == PlaceValue(ds, 1)
    IN  Dec(IF t[1] = "-" THEN -mag ELSE mag, decimals)

\* C8: on a text of digits, ".", ",", spaces, "%", permille signs and signs,
\* parse_number_de returns the number denoted by the cleaned text, and missing
\* when the text is empty, is "nan" or "none" in any letter case, or the cleaned
\* text is no decimal numeral; '1.234,56' gives 1234.56 and '12%' gives 12.0.
C8_ParseDenotesCleanedText ==
    (pc = "num" /\ cell.kind = "str")
        => /\ norm = IF \/ cell.s = <<>>
                        \/ Lower(cell.s) \in {<<"n", "a", "n">>, <<"n", "o", "n", "e">>}
                        \/ ~IsNumeral(Cleaned(cell.s))
                     THEN NaN
                     ELSE NumeralValue(Cleaned(cell.s))
           /\ cell.s = <<"1", ".", "2", "3", "4", ",", "5", "6">> => norm = Dec(123456, 2)
           /\ cell.s = <<"1", "2", "%">> => norm = Dec(12, 0)

C8_Witness ==
    /\ pc = "num" /\ cell = StrCell(<<"5", ".", ",", "5">>)
    /\ norm = Dec(55, 1)

\* the heatmap view rendered for exactly two materials with a selected MM
\* fraction in the table and a row left by the filters
InPairedHeatmap ==
    /\ Rendered /\ InHeatmap /\ Len(req.mats) = 2
    /\ req.mm_selected \cap prot.cols # {}
    /\ RowsLeft # {}

\* two heatmap traces, both bound to the one color axis of the figure
TwoTracesOneAxis ==
    /\ fig.status = "ok" /\ Len(fig.traces) = 2
    /\ \A i \in {1, 2} :
          fig.traces[i].type = "heatmap" /\ fig.traces[i].coloraxis = "coloraxis1"
    /\ fig.coloraxis.set

\* the cell values drawn by the traces of the figure
DrawnValues ==
    UNION {PivotValues(fig.traces[i].z) : i \in 1..Len(fig.traces)}

IsLeast(v, S) == v \in S /\ \A w \in S : RatLeq(v, w)
IsGreatest(v, S) == v \in S /\ \A w \in S : RatLeq(w, v)

\* C11 as claimed: the paired heatmap has two traces on one shared color axis
\* whose bounds are the minimum and the maximum cell value across both pivots.
C11_SharedAxisMinMax ==
    InPairedHeatmap
        => /\ TwoTracesOneAxis
           /\ IsLeast(fig.coloraxis.cmin, DrawnValues)
           /\ IsGreatest(fig.coloraxis.cmax, DrawnValues)

\* C11 (amended): the paired heatmap has two traces on one shared color axis;
\* its bounds are the minimum and the maximum cell value across both pivots when
\* neither pivot is empty, and 0 and 100 when either pivot is empty.
C11_SharedAxisMinMaxOrDefault ==
    InPairedHeatmap
        => /\ TwoTracesOneAxis
           /\ IF \A i \in {1, 2} : ~PivotEmpty(fig.traces[i].z)
              THEN /\ IsLeast(fig.coloraxis.cmin, DrawnValues)
                   /\ IsGreatest(fig.coloraxis.cmax, DrawnValues)
              ELSE /\ fig.coloraxis.cmin = Rat(0, 1)
                   /\ fig.coloraxis.cmax = Rat(100, 1)

C11_Witness ==
    /\ InPairedHeatmap /\ TwoTracesOneAxis
    /\ fig.coloraxis.cmin \in PivotValues(fig.traces[2].z)
    /\ fig.coloraxis.cmin \notin PivotValues(fig.traces[1].z)
    /\ fig.coloraxis.cmax \in PivotValues(fig.traces[1].z)

\* C12: for a dataset name other than carb, prot and filme, update_plot filters
\* the carb table by the material and enzyme selections and returns the chart
\* of the carb dataset (its two bar series under its title), not an error.
C12_UnknownDatasetFallbackChart ==
    (Rendered /\ req.dataset \notin {"carb", "prot", "filme"} /\ RowsLeft # {})
        => /\ fig.status = "ok"
           /\ dff.cols = carb.cols
           /\ {dff.rows[i].idx : i \in 1..Len(dff.rows)} = RowsLeft
           /\ fig.title = TitleCarb
           /\ Len(fig.traces) >= 2

====
